---------------------------- MODULE Spec2Model ----------------------------
(***************************************************************************)
(* Model of the Student Document Dashboard backend (backend/app.py): the   *)
(* in-process rate limiter (FAILED_ATTEMPTS, BLOCKED_IPS), the             *)
(* auth_required gateway, and the login, upload, list and download         *)
(* handlers.  One action per request handler; the clock is an input.       *)
(***************************************************************************)
EXTENDS Integers, Sequences, FiniteSets, TLC

VARIABLES
    now,              \* time.time(), in whole seconds
    FAILED_ATTEMPTS,  \* app.py:63  defaultdict(int): ip -> failures
    BLOCKED_IPS,      \* app.py:66  dict: ip -> block-until
    documents,        \* rows of the Document table
    uploads,          \* files of UPLOAD_FOLDER: stored_name -> bytes
    received,         \* history: document id -> the bytes of the upload that created it
    resp,             \* the last request handled and the response it got
    threads           \* the request threads of the server: place in the code and locals

vars == <<now, FAILED_ATTEMPTS, BLOCKED_IPS, documents, uploads, received, resp, threads>>

-----------------------------------------------------------------------------
(* Program constants *)

BLOCK_THRESHOLD == 10
BLOCK_DURATION == 60
JWT_EXPIRATION_SECONDS == 3600
JWT_SECRET_KEY == "super-secret-demo-key"

(* Bounds of the model *)

\* register_failed_attempt is not taken once an address has this many failures
MaxFailures == 11
\* accepted uploads stop once the Document table has this many rows
MaxDocs == 2

\* the requests one thread handles through register_failed_attempt
MaxRequests == 6

NoValue == "None"

-----------------------------------------------------------------------------
(* Inputs *)

IPs == {"10.0.0.1", "10.0.0.2"}

\* The clock readings at which requests arrive, counted from the start of
\* the process: just before and at the end of a block set at 0.
ClockReadings == {0, BLOCK_DURATION - 1, BLOCK_DURATION}

\* seed_mock_user: the rows of the User table
generate_password_hash(pwd) == <<"hash", pwd>>

check_password_hash(pwhash, password) == pwhash = generate_password_hash(password)

Users ==
    { [id |-> 1, email |-> "test@student.com",
       password_hash |-> generate_password_hash("password123")],
      [id |-> 2, email |-> "test1@student.com",
       password_hash |-> generate_password_hash("password123")] }

UserIds == {u.id : u \in Users}

Emails == {NoValue, "test@student.com", "test1@student.com", "nobody@student.com"}

Passwords == {NoValue, "password123", "letmein"}

\* as jwt_encode, were the token to expire as it is issued
jwt_encode_NoLifetime(sub, iat, key) ==
    [segments |-> 3, sub |-> sub, iat |-> iat, exp |-> iat, key |-> key]

\* jwt.encode of login's payload under a key: a token of three segments
jwt_encode(sub, iat, key) ==
    [segments |-> 3, sub |-> sub, iat |-> iat,
     exp |-> iat + JWT_EXPIRATION_SECONDS, key |-> key]

NoToken == [segments |-> 0, sub |-> 0, iat |-> 0, exp |-> 0, key |-> ""]

\* A bearer string that is no JWT
Garbage == [segments |-> 1, sub |-> 0, iat |-> 0, exp |-> 0, key |-> ""]

\* The Authorization headers of the model.  JWT_SECRET_KEY has a default in
\* the source, so a token signed with it for any subject is a possible input.
\* Tokens outlive the process (the key is configuration), so a token may
\* have been issued before the start, at clock reading 0.
NoHeader == [scheme |-> "", token |-> NoToken]

BasicHeader == [scheme |-> "Basic", token |-> NoToken]

Bearer(token) == [scheme |-> "Bearer", token |-> token]

\* tokens of both users issued at the start
FreshTokens == {jwt_encode(u, 0, JWT_SECRET_KEY) : u \in UserIds}

\* a token of user 1 that expired before the start
ExpiredToken == jwt_encode(1, 0 - JWT_EXPIRATION_SECONDS - 1, JWT_SECRET_KEY)

\* a token of user 1 that expires at the last clock reading
LateToken == jwt_encode(1, BLOCK_DURATION - JWT_EXPIRATION_SECONDS, JWT_SECRET_KEY)

\* a string that is no token, a token signed with another key, a token of a
\* subject that is no user
BadTokens == {Garbage, jwt_encode(1, 0, "other-key"), jwt_encode(3, 0, JWT_SECRET_KEY)}

AuthHeaders ==
    {NoHeader, BasicHeader} \cup {Bearer(k) : k \in FreshTokens \cup {ExpiredToken} \cup BadTokens}

-----------------------------------------------------------------------------
(* Strings that the code takes apart are sequences of characters *)

RECURSIVE Digits(_)
\* str(n) of a natural number
Digits(n) ==
    IF n < 10 THEN <<ToString(n)>> ELSE Digits(n \div 10) \o <<ToString(n % 10)>>

LowerOf == [c \in {"P", "D", "F"} |-> CASE c = "P" -> "p" [] c = "D" -> "d" [] c = "F" -> "f"]

\* str.lower()
lower(s) == [i \in 1..Len(s) |-> IF s[i] \in DOMAIN LowerOf THEN LowerOf[s[i]] ELSE s[i]]

\* str.endswith(suffix)
endswith(s, suffix) ==
    /\ Len(s) >= Len(suffix)
    /\ SubSeq(s, Len(s) - Len(suffix) + 1, Len(s)) = suffix

\* the characters secure_filename keeps, [A-Za-z0-9_.-], of the model's alphabet
SafeChars == {"a", "b", "p", "d", "f", "t", "x", "P", "D", "F", "1", "2", "_", ".", "-"}

RECURSIVE JoinWords(_, _, _)
\* "_".join(filename.split()) once path separators have become spaces
JoinWords(s, started, gap) ==
    IF s = <<>> THEN <<>>
    ELSE IF Head(s) \in {" ", "/"} THEN JoinWords(Tail(s), started, started)
    ELSE (IF gap THEN <<"_">> ELSE <<>>) \o <<Head(s)>> \o JoinWords(Tail(s), TRUE, FALSE)

RECURSIVE Strip(_, _)
\* str.strip(chars)
Strip(s, chars) ==
    IF s = <<>> THEN s
    ELSE IF Head(s) \in chars THEN Strip(Tail(s), chars)
    ELSE IF s[Len(s)] \in chars THEN Strip(SubSeq(s, 1, Len(s) - 1), chars)
    ELSE s

\* werkzeug.utils.secure_filename
secure_filename(filename) ==
    Strip(SelectSeq(JoinWords(filename, FALSE, FALSE), LAMBDA c : c \in SafeChars),
          {".", "_"})

ensure_safe_filename(filename) == secure_filename(filename)

PDF_MIME == "application/pdf"

PDF_MAGIC == <<"%", "P", "D", "F">>

\* file.read(4): at most the first four bytes
read4(content) == SubSeq(content, 1, IF Len(content) < 4 THEN Len(content) ELSE 4)

\* as validate_pdf, were one check that holds enough
validate_pdf_AnyOne(file) ==
    \/ file.mimetype = PDF_MIME
    \/ read4(file.content) = PDF_MAGIC
    \/ endswith(lower(file.filename), <<".", "p", "d", "f">>)

validate_pdf(file) ==
    IF file.mimetype # PDF_MIME THEN FALSE
    ELSE IF read4(file.content) # PDF_MAGIC THEN FALSE
    ELSE IF ~endswith(lower(file.filename), <<".", "p", "d", "f">>) THEN FALSE
    ELSE TRUE

\* f"{user_id}_{timestamp}_{safe_original}"
StoredName(user_id, timestamp, safe_original) ==
    Digits(user_id) \o <<"_">> \o Digits(timestamp) \o <<"_">> \o safe_original

\* The uploads of the model; NoFile is a request without a "file" part
Filenames == { <<"/", "a", ".", "P", "D", "F">>,
               <<"a", ".", "t", "x", "t">> }

Contents == { <<"%", "P", "D", "F", "1">>,
              <<"%", "P", "D", "F", "2">>,
              <<"x", "%", "P", "D", "F">> }

Mimetypes == {PDF_MIME, "text/plain"}

NoFile == [present |-> FALSE, filename |-> <<>>, mimetype |-> "", content |-> <<>>]

FileOf(filename, mimetype, content) ==
    [present |-> TRUE, filename |-> filename, mimetype |-> mimetype, content |-> content]

\* every combination, and a file shorter than the signature
Files ==
    {NoFile, FileOf(<<"/", "a", ".", "P", "D", "F">>, PDF_MIME, <<"%", "P", "D">>)}
    \cup {FileOf(f, m, c) : f \in Filenames, m \in Mimetypes, c \in Contents}

\* str(uuid.uuid4()): the n-th identifier drawn; "" is a missing file_id
uuid4(n) == "doc-" \o ToString(n)

-----------------------------------------------------------------------------
(* Rate limiting *)

\* as is_ip_blocked, were no address ever found blocked
is_ip_blocked_Never(blocked, ip, t) == FALSE

\* what is_ip_blocked(ip) returns at time t
is_ip_blocked(blocked, ip, t) ==
    IF ip \in DOMAIN blocked
    THEN (IF t < blocked[ip] THEN TRUE ELSE FALSE)
    ELSE FALSE

\* BLOCKED_IPS once is_ip_blocked(ip) has run at time t: del of an expired entry
BlockedAfterCheck(blocked, ip, t) ==
    IF ip \in DOMAIN blocked /\ ~(t < blocked[ip])
    THEN [a \in DOMAIN blocked \ {ip} |-> blocked[a]]
    ELSE blocked

\* as FailedAfterFailure, were the failures counted in one counter for all
FailedAfterFailure_Shared(failed, ip) == [a \in DOMAIN failed |-> failed[a] + 1]

\* FAILED_ATTEMPTS once register_failed_attempt(ip) has run
FailedAfterFailure(failed, ip) == [failed EXCEPT ![ip] = @ + 1]

\* as BlockedAfterFailure, were the block set only past the threshold
BlockedAfterFailure_Past(failed, blocked, ip, t) ==
    IF failed[ip] + 1 > BLOCK_THRESHOLD
    THEN [a \in DOMAIN blocked \cup {ip} |->
            IF a = ip THEN t + BLOCK_DURATION ELSE blocked[a]]
    ELSE blocked

\* as BlockedAfterFailure, were the block set only by the failure that
\* reaches the threshold
BlockedAfterFailure_Once(failed, blocked, ip, t) ==
    IF failed[ip] + 1 = BLOCK_THRESHOLD
    THEN [a \in DOMAIN blocked \cup {ip} |->
            IF a = ip THEN t + BLOCK_DURATION ELSE blocked[a]]
    ELSE blocked

\* BLOCKED_IPS once register_failed_attempt(ip) has run at time t
BlockedAfterFailure(failed, blocked, ip, t) ==
    IF FailedAfterFailure(failed, ip)[ip] >= BLOCK_THRESHOLD
    THEN [a \in DOMAIN blocked \cup {ip} |->
            IF a = ip THEN t + BLOCK_DURATION ELSE blocked[a]]
    ELSE blocked

\* the security.log lines register_failed_attempt(ip) writes
LogLine(event, ip, user, file) == [event |-> event, ip |-> ip, user |-> user, file |-> file]

LogAfterFailure(failed, ip) ==
    IF FailedAfterFailure(failed, ip)[ip] >= BLOCK_THRESHOLD
    THEN <<LogLine("IP blocked due to excessive failures", ip, 0, "")>>
    ELSE <<>>

-----------------------------------------------------------------------------
(* Tokens and the gateway *)

\* as jwt_decode, were the expiry not verified
jwt_decode_NoExpiry(token, key, t) ==
    IF token.segments # 3 THEN "InvalidTokenError"
    ELSE IF token.key # key THEN "InvalidTokenError"
    ELSE "ok"

\* as jwt_decode, were a token given as much time again after its expiry
jwt_decode_Leeway(token, key, t) ==
    IF token.segments # 3 THEN "InvalidTokenError"
    ELSE IF token.key # key THEN "InvalidTokenError"
    ELSE IF token.exp + JWT_EXPIRATION_SECONDS <= t THEN "ExpiredSignatureError"
    ELSE "ok"

\* jwt.decode(token, key, algorithms=["HS256"]) at time t: the signature is
\* verified before the claims, and exp <= now is expired
jwt_decode(token, key, t) ==
    IF token.segments # 3 THEN "InvalidTokenError"
    ELSE IF token.key # key THEN "InvalidTokenError"
    ELSE IF token.exp <= t THEN "ExpiredSignatureError"
    ELSE "ok"

\* User.query.get(id): the ids of the rows found, none or one
UserById(id) == {u \in Users : u.id = id}

\* User.query.filter_by(email=email).first()
UserByEmail(email) == {u \in Users : u.email = email}

\* The wrapper of auth_required up to the call of the handler: the status it
\* answers (0 when the handler is called), its error text, g.current_user
\* and the calls it made.
auth_required(blocked, ip, auth, t) ==
    IF is_ip_blocked(blocked, ip, t)
    THEN [status |-> 429, error |-> "Too many failed attempts. Try again later.",
          user |-> 0, calls |-> {"is_ip_blocked"}]
    ELSE IF auth.scheme # "Bearer"
    THEN [status |-> 401, error |-> "Authentication required",
          user |-> 0, calls |-> {"is_ip_blocked", "register_failed_attempt"}]
    ELSE IF jwt_decode(auth.token, JWT_SECRET_KEY, t) = "ExpiredSignatureError"
    THEN [status |-> 401, error |-> "Token expired",
          user |-> 0, calls |-> {"is_ip_blocked", "jwt.decode", "register_failed_attempt"}]
    ELSE IF jwt_decode(auth.token, JWT_SECRET_KEY, t) = "InvalidTokenError"
    THEN [status |-> 401, error |-> "Invalid token",
          user |-> 0, calls |-> {"is_ip_blocked", "jwt.decode", "register_failed_attempt"}]
    ELSE IF UserById(auth.token.sub) = {}
    THEN [status |-> 401, error |-> "User not found",
          user |-> 0,
          calls |-> {"is_ip_blocked", "jwt.decode", "User.query.get",
                     "register_failed_attempt"}]
    ELSE [status |-> 0, error |-> "",
          user |-> auth.token.sub,
          calls |-> {"is_ip_blocked", "jwt.decode", "User.query.get", "handler"}]

-----------------------------------------------------------------------------------------------------------------------------------------------------
(* State *)

NoLog == <<>>

\* What a request carries: the handler it is routed to (op),
\* request.remote_addr (ip), the Authorization header, the email and password
\* of a login, the file_id of a download, a user id in an upload's form and
\* the "file" part of an upload (NoFile when there is none).
Request(op, ip, auth, email, password, file_id, form_user_id) ==
    [op |-> op, ip |-> ip, auth |-> auth, email |-> email, password |-> password,
     file_id |-> file_id, form_user_id |-> form_user_id, file |-> NoFile]

Protected(op, ip, auth) == Request(op, ip, auth, "", "", "", 0)

\* A request and what it got: the HTTP status and error text,
\* g.current_user.id (0 when unset), the token of a login, the rows of a
\* list, the document and the bytes of an upload or download, the lines
\* written to security.log and the calls made.
Response(req, status, error, user, token, listed, document, data, log, calls) ==
    [op |-> req.op, ip |-> req.ip, auth |-> req.auth, email |-> req.email,
     password |-> req.password, file_id |-> req.file_id,
     form_user_id |-> req.form_user_id, file |-> req.file,
     status |-> status, error |-> error, user |-> user,
     token |-> token, listed |-> listed, document |-> document, data |-> data,
     log |-> log, calls |-> calls]

\* an error response: no token, no rows, no document, no bytes
Refusal(req, status, error, user, log, calls) ==
    Response(req, status, error, user, NoToken, {}, "", <<>>, log, calls)

Idle == Refusal(Request("", "", NoHeader, "", "", "", 0), 0, "", 0, NoLog, {})

\* The threads in which the server handles requests at the same time
\* (app.run serves each request in a thread of its own)
Threads == {"thread-1", "thread-2"}

\* A thread between requests: pc is its place in the code, n the count it
\* has loaded, status the answer of its last request (0: none yet) and
\* registered the calls of register_failed_attempt it has completed.
IdleThread == [pc |-> "idle", n |-> 0, status |-> 0, registered |-> 0]

Init ==
    /\ now = 0
    /\ FAILED_ATTEMPTS = [ip \in IPs |-> 0]
    /\ BLOCKED_IPS = [ip \in {} |-> 0]
    /\ documents = {}
    /\ uploads = [n \in {} |-> <<>>]
    /\ received = [d \in {} |-> <<>>]
    /\ resp = Idle
    /\ threads = [w \in Threads |-> IdleThread]

\* Document.query.get(doc_id)
DocById(doc_id) == {d \in documents : d.id = doc_id}

\* as DocsOf, were the query not filtered by owner
DocsOf_All(user_id) == documents

\* Document.query.filter_by(user_id=user_id).all()
DocsOf(user_id) == {d \in documents : d.user_id = user_id}

\* file.save(save_path): the file of that name is created or overwritten
SaveFile(files, stored_name, content) ==
    [n \in DOMAIN files \cup {stored_name} |->
        IF n = stored_name THEN content ELSE files[n]]

\* send_from_directory(UPLOAD_FOLDER, stored_name): the bytes of that file
send_from_directory(files, stored_name) == files[stored_name]

-----------------------------------------------------------------------------
(* Actions *)

\* time passes between requests
Tick(t) ==
    /\ t > now
    /\ now' = t
    /\ resp' = Idle
    /\ UNCHANGED <<FAILED_ATTEMPTS, BLOCKED_IPS, documents, uploads, received, threads>>

\* as FailedAfterPass, were the wrapper to record a success
FailedAfterPass_Reset(failed, ip) == [failed EXCEPT ![ip] = 0]

\* FAILED_ATTEMPTS when the wrapper of auth_required calls the handler: the
\* wrapper sets g.current_user and writes nothing else
FailedAfterPass(failed, ip) == failed

\* the wrapper of auth_required has called the handler and the handler
\* registers no failure
GatewayPasses(ip) ==
    /\ FAILED_ATTEMPTS' = FailedAfterPass(FAILED_ATTEMPTS, ip)
    /\ BLOCKED_IPS' = BlockedAfterCheck(BLOCKED_IPS, ip, now)

\* as RegisterFailure, were the count to start again once a block has run out
RegisterFailure_Fresh(failed, ip) ==
    LET expired == ip \in DOMAIN BLOCKED_IPS /\ ~(now < BLOCKED_IPS[ip])
        base == IF expired THEN [failed EXCEPT ![ip] = 0] ELSE failed
    IN
    /\ failed[ip] < MaxFailures
    /\ FAILED_ATTEMPTS' = FailedAfterFailure(base, ip)
    /\ BLOCKED_IPS' = BlockedAfterFailure(base, BlockedAfterCheck(BLOCKED_IPS, ip, now),
                                          ip, now)

\* register_failed_attempt(ip) after is_ip_blocked(ip) has returned False
RegisterFailure(failed, ip) ==
    /\ failed[ip] < MaxFailures
    /\ FAILED_ATTEMPTS' = FailedAfterFailure(failed, ip)
    /\ BLOCKED_IPS' = BlockedAfterFailure(failed, BlockedAfterCheck(BLOCKED_IPS, ip, now),
                                          ip, now)

\* as GatewayRejects, were a request refused as blocked counted as a failure
GatewayRejects_Counts(req, gw) ==
    /\ gw.status # 0
    /\ RegisterFailure(FAILED_ATTEMPTS, req.ip)
    /\ resp' = Refusal(req, gw.status, gw.error, 0,
                       LogAfterFailure(FAILED_ATTEMPTS, req.ip), gw.calls)
    /\ UNCHANGED <<now, documents, uploads, received>>

\* auth_required answers 429 or 401 itself and the handler is not called
GatewayRejects(req, gw) ==
    /\ gw.status # 0
    /\ IF gw.status = 429
       THEN /\ UNCHANGED <<FAILED_ATTEMPTS, BLOCKED_IPS>>
            /\ resp' = Refusal(req, 429, gw.error, 0,
                               <<LogLine("Blocked IP attempted request", req.ip, 0, "")>>,
                               gw.calls)
       ELSE /\ RegisterFailure(FAILED_ATTEMPTS, req.ip)
            /\ resp' = Refusal(req, 401, gw.error, 0,
                               LogAfterFailure(FAILED_ATTEMPTS, req.ip), gw.calls)
    /\ UNCHANGED <<now, documents, uploads, received>>

\* as BlockedAfterLogin, were a successful login to lift the block
BlockedAfterLogin_Lifts(blocked, ip) == [a \in DOMAIN blocked \ {ip} |-> blocked[a]]

\* BLOCKED_IPS after a successful login: login resets FAILED_ATTEMPTS[ip]
\* and writes nothing else
BlockedAfterLogin(blocked, ip) == blocked

\* POST /api/auth/login
Login(ip, email, password) ==
    LET req == Request("login", ip, NoHeader, email, password, "", 0) IN
    /\ UNCHANGED <<now, documents, uploads, received>>
    /\ IF email \in {NoValue, ""} \/ password \in {NoValue, ""}
       THEN /\ resp' = Refusal(req, 400, "Email and password required", 0, NoLog, {})
            /\ UNCHANGED <<FAILED_ATTEMPTS, BLOCKED_IPS>>
       ELSE IF UserByEmail(email) = {}
       THEN /\ FAILED_ATTEMPTS[ip] < MaxFailures
            /\ FAILED_ATTEMPTS' = FailedAfterFailure(FAILED_ATTEMPTS, ip)
            /\ BLOCKED_IPS' = BlockedAfterFailure(FAILED_ATTEMPTS, BLOCKED_IPS, ip, now)
            /\ resp' = Refusal(req, 401, "Invalid credentials", 0,
                               LogAfterFailure(FAILED_ATTEMPTS, ip),
                               {"User.query", "register_failed_attempt"})
       ELSE LET user == CHOOSE u \in UserByEmail(email) : TRUE IN
            IF ~check_password_hash(user.password_hash, password)
            THEN /\ FAILED_ATTEMPTS[ip] < MaxFailures
                 /\ FAILED_ATTEMPTS' = FailedAfterFailure(FAILED_ATTEMPTS, ip)
                 /\ BLOCKED_IPS' = BlockedAfterFailure(FAILED_ATTEMPTS, BLOCKED_IPS, ip, now)
                 /\ resp' = Refusal(req, 401, "Invalid credentials", 0,
                                    LogAfterFailure(FAILED_ATTEMPTS, ip),
                                    {"User.query", "check_password_hash",
                                     "register_failed_attempt"})
            ELSE /\ FAILED_ATTEMPTS' = [FAILED_ATTEMPTS EXCEPT ![ip] = 0]
                 /\ BLOCKED_IPS' = BlockedAfterLogin(BLOCKED_IPS, ip)
                 /\ resp' = Response(req, 200, "", user.id,
                                     jwt_encode(user.id, now, JWT_SECRET_KEY),
                                     {}, "", <<>>, NoLog,
                                     {"User.query", "check_password_hash", "jwt.encode"})

\* as NewDocument, were the owner read from the form when it has one
NewDocument_FromForm(doc_id, current_user, form_user_id, safe_original, stored_name, t) ==
    [id |-> doc_id,
     user_id |-> IF form_user_id # 0 THEN form_user_id ELSE current_user,
     original_name |-> safe_original,
     stored_name |-> stored_name,
     uploaded_at |-> t]

\* Document(user_id=g.current_user.id, original_name=..., stored_name=...)
NewDocument(doc_id, current_user, form_user_id, safe_original, stored_name, t) ==
    [id |-> doc_id,
     user_id |-> current_user,
     original_name |-> safe_original,
     stored_name |-> stored_name,
     uploaded_at |-> t]

\* POST /api/documents/upload.  form_user_id is a user id the client puts in
\* the form (0: none); the handler reads request.files only.
upload_document(ip, auth, file, form_user_id) ==
    LET req == [Request("upload", ip, auth, "", "", "", form_user_id) EXCEPT !.file = file]
        gw == auth_required(BLOCKED_IPS, ip, auth, now)
    IN
    IF gw.status # 0 THEN GatewayRejects(req, gw)
    ELSE
    /\ UNCHANGED now
    /\ GatewayPasses(ip)
    /\ IF ~file.present
       THEN /\ resp' = Refusal(req, 400, "No file uploaded", gw.user, NoLog, gw.calls)
            /\ UNCHANGED <<documents, uploads, received>>
       ELSE IF ~validate_pdf(file)
       THEN /\ resp' = Refusal(req, 400, "Only PDF files are allowed", gw.user, NoLog,
                               gw.calls \cup {"validate_pdf"})
            /\ UNCHANGED <<documents, uploads, received>>
       ELSE LET safe_original == ensure_safe_filename(file.filename)
                timestamp == now
                stored_name == StoredName(gw.user, timestamp, safe_original)
                doc == NewDocument(uuid4(Cardinality(documents) + 1), gw.user,
                                   form_user_id, safe_original, stored_name, now)
            IN
            /\ Cardinality(documents) < MaxDocs
            /\ uploads' = SaveFile(uploads, stored_name, file.content)
            /\ documents' = documents \cup {doc}
            /\ received' = [d \in DOMAIN received \cup {doc.id} |->
                               IF d = doc.id THEN file.content ELSE received[d]]
            /\ resp' = Response(req, 200, "", gw.user, NoToken, {}, doc.id,
                                file.content, NoLog,
                                gw.calls \cup {"validate_pdf", "file.save"})

\* GET /api/documents
list_documents(ip, auth) ==
    LET req == Protected("list", ip, auth)
        gw == auth_required(BLOCKED_IPS, ip, auth, now)
    IN
    IF gw.status # 0 THEN GatewayRejects(req, gw)
    ELSE
    /\ UNCHANGED <<now, documents, uploads, received>>
    /\ GatewayPasses(ip)
    /\ resp' = Response(req, 200, "", gw.user, NoToken, DocsOf(gw.user), "",
                        <<>>, NoLog, gw.calls)

\* as NotOwner, were the id of the document enough to fetch it
NotOwner_Never(doc, current_user) == FALSE

\* doc.user_id != g.current_user.id
NotOwner(doc, current_user) == doc.user_id # current_user

\* GET /api/documents/download?file_id=...
download_document(ip, auth, doc_id) ==
    LET req == Request("download", ip, auth, "", "", doc_id, 0)
        gw == auth_required(BLOCKED_IPS, ip, auth, now)
    IN
    IF gw.status # 0 THEN GatewayRejects(req, gw)
    ELSE
    /\ UNCHANGED <<now, documents, uploads, received>>
    /\ IF doc_id = ""
       THEN /\ resp' = Refusal(req, 400, "file_id is required", gw.user, NoLog, gw.calls)
            /\ GatewayPasses(ip)
       ELSE IF DocById(doc_id) = {}
       THEN /\ resp' = Refusal(req, 404, "File not found", gw.user, NoLog, gw.calls)
            /\ GatewayPasses(ip)
       ELSE LET doc == CHOOSE d \in DocById(doc_id) : TRUE IN
            IF NotOwner(doc, gw.user)
            THEN /\ RegisterFailure(FailedAfterPass(FAILED_ATTEMPTS, ip), ip)
                 /\ resp' = Refusal(req, 403, "Not authorized to download this file",
                                gw.user,
                                <<LogLine("Unauthorized download attempt", ip, gw.user, doc_id)>>
                                    \o LogAfterFailure(FailedAfterPass(FAILED_ATTEMPTS, ip), ip),
                                gw.calls \cup {"register_failed_attempt"})
            ELSE /\ resp' = Response(req, 200, "", gw.user, NoToken, {}, doc.id,
                                send_from_directory(uploads, doc.stored_name), NoLog,
                                gw.calls \cup {"send_from_directory"})
                 /\ GatewayPasses(ip)

\* the user ids a client may put in the upload form: none, or user 2
FormUserIds == {0, 2}

\* the file_id values of the model: none, every id drawn so far, one unknown
FileIds == {""} \cup {uuid4(n) : n \in 1..(Cardinality(documents) + 1)}

Passes(ip, auth) == auth_required(BLOCKED_IPS, ip, auth, now).status = 0

\* The requests of clients that have the addresses ips, present the headers
\* auths and upload the files files
Requests(ips, auths, files) ==
    \/ \E ip \in ips, email \in Emails, password \in Passwords :
         Login(ip, email, password) /\ UNCHANGED threads
    \/ \E ip \in ips, auth \in auths :
         \E file \in (IF Passes(ip, auth) THEN files ELSE {NoFile}) :
            \E form_user_id \in (IF validate_pdf(file) THEN FormUserIds ELSE {0}) :
                upload_document(ip, auth, file, form_user_id) /\ UNCHANGED threads
    \/ \E ip \in ips, auth \in auths : list_documents(ip, auth) /\ UNCHANGED threads
    \/ \E ip \in ips, auth \in auths :
         \E doc_id \in (IF Passes(ip, auth) THEN FileIds ELSE {""}) :
            download_document(ip, auth, doc_id) /\ UNCHANGED threads

\* One second of traffic from one client address: every header and every
\* file, all requests arriving at the clock reading of the start.
Next == Requests({"10.0.0.1"}, AuthHeaders, Files)

Spec == Init /\ [][Next]_vars

\* A start of the process on a database and an upload folder that an earlier
\* run has filled (both outlive the process; the rate limiter does not): one
\* document of each user.
PersistedName(u) == StoredName(u, 0, ensure_safe_filename(<<"/", "a", ".", "P", "D", "F">>))

PersistedDocs ==
    {[id |-> uuid4(u), user_id |-> u,
      original_name |-> ensure_safe_filename(<<"/", "a", ".", "P", "D", "F">>),
      stored_name |-> PersistedName(u), uploaded_at |-> 0] : u \in UserIds}

InitPersisted ==
    /\ now = 0
    /\ FAILED_ATTEMPTS = [ip \in IPs |-> 0]
    /\ BLOCKED_IPS = [ip \in {} |-> 0]
    /\ documents = PersistedDocs
    /\ uploads = [n \in {PersistedName(u) : u \in UserIds} |-> <<"%", "P", "D", "F", "1">>]
    /\ received = [d \in {uuid4(u) : u \in UserIds} |-> <<"%", "P", "D", "F", "1">>]
    /\ resp = Idle
    /\ threads = [w \in Threads |-> IdleThread]

\* The life of a block: one client address, every header, no upload that
\* carries a file, requests arriving at every clock reading.
NextThrottle ==
    \/ \E t \in ClockReadings : Tick(t)
    \/ Requests({"10.0.0.1"}, AuthHeaders \cup {Bearer(LateToken)}, {NoFile})

SpecThrottle == InitPersisted /\ [][NextThrottle]_vars

\* One second of traffic from two client addresses, with and without a
\* token, no upload that carries a file.
NextTwo == Requests(IPs, {NoHeader} \cup {Bearer(k) : k \in FreshTokens}, {NoFile})

SpecTwo == InitPersisted /\ [][NextTwo]_vars

\* A user with a valid token asks for documents by id, its own and those of
\* the other user, and lists its documents, at every clock reading: every
\* failure on record is a download refused for its owner.
NextProbe ==
    \/ \E t \in ClockReadings : Tick(t)
    \/ \E ip \in IPs, k \in FreshTokens :
         \E doc_id \in FileIds :
            download_document(ip, Bearer(k), doc_id) /\ UNCHANGED threads
    \/ \E ip \in IPs, k \in FreshTokens :
         list_documents(ip, Bearer(k)) /\ UNCHANGED threads

SpecProbe == InitPersisted /\ [][NextProbe]_vars

-----------------------------------------------------------------------------
(* Requests handled at the same time.  Each thread handles protected        *)
(* requests of one client address that carry no Authorization header:       *)
(* is_ip_blocked, then register_failed_attempt, then 401.  The code takes   *)
(* no lock, so a thread may be suspended between any two accesses of        *)
(* FAILED_ATTEMPTS and BLOCKED_IPS; each action is one access.              *)

ClientIp == "10.0.0.1"

\* the thread w goes to the place pc
Goto(w, pc) == threads' = [threads EXCEPT ![w].pc = pc]

\* the thread w answers its request with status and waits for the next
Answer(w, status) == threads' = [threads EXCEPT ![w].pc = "idle", ![w].status = status]

\* a request arrives and the wrapper of auth_required calls is_ip_blocked(ip)
StartRequest(w) ==
    /\ threads[w].pc = "idle"
    /\ threads[w].registered < MaxRequests
    /\ Goto(w, "in")
    /\ UNCHANGED <<now, FAILED_ATTEMPTS, BLOCKED_IPS, documents, uploads, received, resp>>

\* is_ip_blocked: if ip in BLOCKED_IPS
CheckMembership(w) ==
    /\ threads[w].pc = "in"
    /\ IF ClientIp \in DOMAIN BLOCKED_IPS THEN Goto(w, "lookup") ELSE Goto(w, "load")
    /\ UNCHANGED <<now, FAILED_ATTEMPTS, BLOCKED_IPS, documents, uploads, received, resp>>

\* is_ip_blocked: if time.time() < BLOCKED_IPS[ip].  The subscript raises
\* KeyError when the entry is gone, and the request is answered 500; when
\* the block has not run out the wrapper answers 429.
ReadBlockUntil(w) ==
    /\ threads[w].pc = "lookup"
    /\ IF ClientIp \notin DOMAIN BLOCKED_IPS THEN Answer(w, 500)
       ELSE IF now < BLOCKED_IPS[ClientIp] THEN Answer(w, 429)
       ELSE Goto(w, "del")
    /\ UNCHANGED <<now, FAILED_ATTEMPTS, BLOCKED_IPS, documents, uploads, received, resp>>

\* is_ip_blocked: del BLOCKED_IPS[ip], KeyError when the entry is gone; then
\* return False, and the wrapper, finding no bearer credential, calls
\* register_failed_attempt(ip)
DeleteBlock(w) ==
    /\ threads[w].pc = "del"
    /\ IF ClientIp \notin DOMAIN BLOCKED_IPS
       THEN Answer(w, 500) /\ UNCHANGED BLOCKED_IPS
       ELSE /\ BLOCKED_IPS' = [a \in DOMAIN BLOCKED_IPS \ {ClientIp} |-> BLOCKED_IPS[a]]
            /\ Goto(w, "load")
    /\ UNCHANGED <<now, FAILED_ATTEMPTS, documents, uploads, received, resp>>

\* register_failed_attempt: FAILED_ATTEMPTS[ip] += 1, the load of the count
LoadCount(w) ==
    /\ threads[w].pc = "load"
    /\ threads' = [threads EXCEPT ![w].pc = "store", ![w].n = FAILED_ATTEMPTS[ClientIp]]
    /\ UNCHANGED <<now, FAILED_ATTEMPTS, BLOCKED_IPS, documents, uploads, received, resp>>

\* register_failed_attempt: FAILED_ATTEMPTS[ip] += 1, the store of the
\* count loaded plus one
StoreCount(w) ==
    /\ threads[w].pc = "store"
    /\ FAILED_ATTEMPTS' = [FAILED_ATTEMPTS EXCEPT ![ClientIp] = threads[w].n + 1]
    /\ threads' = [threads EXCEPT ![w].pc = "test", ![w].n = 0,
                                   ![w].registered = @ + 1]
    /\ UNCHANGED <<now, BLOCKED_IPS, documents, uploads, received, resp>>

\* register_failed_attempt: if FAILED_ATTEMPTS[ip] >= BLOCK_THRESHOLD; when
\* it is not, the wrapper answers 401
TestThreshold(w) ==
    /\ threads[w].pc = "test"
    /\ IF FAILED_ATTEMPTS[ClientIp] >= BLOCK_THRESHOLD THEN Goto(w, "block") ELSE Answer(w, 401)
    /\ UNCHANGED <<now, FAILED_ATTEMPTS, BLOCKED_IPS, documents, uploads, received, resp>>

\* register_failed_attempt: BLOCKED_IPS[ip] = time.time() + BLOCK_DURATION;
\* the wrapper answers 401
SetBlock(w) ==
    /\ threads[w].pc = "block"
    /\ BLOCKED_IPS' = [a \in DOMAIN BLOCKED_IPS \cup {ClientIp} |->
                          IF a = ClientIp THEN now + BLOCK_DURATION ELSE BLOCKED_IPS[a]]
    /\ Answer(w, 401)
    /\ UNCHANGED <<now, FAILED_ATTEMPTS, documents, uploads, received, resp>>

NextConcurrent ==
    \/ \E t \in ClockReadings : Tick(t)
    \/ \E w \in Threads : StartRequest(w)
    \/ \E w \in Threads : CheckMembership(w)
    \/ \E w \in Threads : ReadBlockUntil(w)
    \/ \E w \in Threads : DeleteBlock(w)
    \/ \E w \in Threads : LoadCount(w)
    \/ \E w \in Threads : StoreCount(w)
    \/ \E w \in Threads : TestThreshold(w)
    \/ \E w \in Threads : SetBlock(w)

SpecConcurrent == Init /\ [][NextConcurrent]_vars

-----------------------------------------------------------------------------
(* Properties.  A step that handles a request leaves the request and its   *)
(* response in resp'; the unprimed variables are the state it arrived in.  *)

ProtectedOps == {"upload", "list", "download"}

\* the address of the request has a block that has not run out
ActiveBlock(ip) == ip \in DOMAIN BLOCKED_IPS /\ now < BLOCKED_IPS[ip]

\* the calls that check a credential
CredentialChecks == {"jwt.decode", "User.query.get", "User.query", "check_password_hash"}

\* the seeded accounts (seed_mock_user)
SeededIds == {1, 2}

SeededCredentials ==
    {<<"test@student.com", "password123">>, <<"test1@student.com", "password123">>}

\* the request r carries a bearer token that is signed with the server's
\* key, has not expired at time t and names a seeded user
ValidBearer(r, t) ==
    /\ r.auth.scheme = "Bearer"
    /\ r.auth.token.segments = 3
    /\ r.auth.token.key = JWT_SECRET_KEY
    /\ t < r.auth.token.exp
    /\ r.auth.token.sub \in SeededIds

\* what a failing request adds to the counter
Added(r) == IF r.status = 403 THEN 1 ELSE 0

\* C1: while an address has an active block, every attempt from it (a login
\* with valid or invalid credentials, an upload, a list, a download, with or
\* without a valid token) is answered 429 and no credential check is made.
C1_BlockedRejectsEveryAttempt ==
    [][(/\ ActiveBlock(resp'.ip)
        /\ \/ resp'.op \in ProtectedOps
           \/ resp'.op = "login" /\ resp'.email # NoValue /\ resp'.password # NoValue)
         => (resp'.status = 429 /\ resp'.calls \cap CredentialChecks = {})]_vars

\* C2, as claimed: a protected request from an unblocked address that passes
\* the gateway in full finds the failure counter of its address reset to zero
\* (so that after the request it holds only what the handler added).
C2_GatewayPassResetsCounter ==
    [][(resp'.op \in ProtectedOps /\ ~ActiveBlock(resp'.ip) /\ ValidBearer(resp', now))
         => FAILED_ATTEMPTS'[resp'.ip] = Added(resp')]_vars

\* C2, amended: a protected request from an unblocked address that passes the
\* gateway in full leaves the failure counter of its address as it was (plus
\* the one a download refused with 403 adds); a counter goes down only by a
\* successful login from that address, which sets it to zero.
C2_GatewayPassKeepsCounter ==
    [][/\ (resp'.op \in ProtectedOps /\ ~ActiveBlock(resp'.ip) /\ ValidBearer(resp', now))
            => /\ "handler" \in resp'.calls
               /\ FAILED_ATTEMPTS'[resp'.ip] = FAILED_ATTEMPTS[resp'.ip] + Added(resp')
       /\ \A ip \in IPs :
            FAILED_ATTEMPTS'[ip] < FAILED_ATTEMPTS[ip]
                => /\ resp'.op = "login" /\ resp'.status = 200 /\ resp'.ip = ip
                   /\ FAILED_ATTEMPTS'[ip] = 0]_vars

\* a list has passed the gateway from an address with failures on record
C2_Witness ==
    /\ resp.op = "list" /\ resp.status = 200
    /\ FAILED_ATTEMPTS[resp.ip] >= BLOCK_THRESHOLD

\* C3: a protected request from an unblocked address without a bearer
\* credential, with a malformed or wrongly signed token, with an expired
\* token or with a token of a subject that is no user adds exactly one to the
\* counter of its address, is answered 401, and the handler does not run: no
\* document is created, listed or released.
C3_GatewayFailure ==
    [][(resp'.op \in ProtectedOps /\ ~ActiveBlock(resp'.ip) /\ ~ValidBearer(resp', now))
         => /\ resp'.status = 401
            /\ FAILED_ATTEMPTS'[resp'.ip] = FAILED_ATTEMPTS[resp'.ip] + 1
            /\ "handler" \notin resp'.calls
            /\ documents' = documents /\ uploads' = uploads
            /\ resp'.listed = {} /\ resp'.document = "" /\ resp'.data = <<>>]_vars

\* a download with the token of an unknown subject was refused while both
\* users have documents
C3_Witness ==
    /\ resp.op = "download" /\ resp.status = 401
    /\ resp.auth = Bearer(jwt_encode(3, 0, JWT_SECRET_KEY))
    /\ \A u \in SeededIds : \E d \in documents : d.user_id = u

\* C4: a download of a document of user A with the valid token of another
\* user B is answered 403, releases no bytes, writes an audit record naming
\* the requester, the document and the address, and adds exactly one to the
\* failure counter of the requesting address.
C4_CrossOwnerDownload ==
    [][(/\ resp'.op = "download" /\ ~ActiveBlock(resp'.ip) /\ ValidBearer(resp', now)
        /\ \E d \in documents : d.id = resp'.file_id /\ d.user_id # resp'.auth.token.sub)
         => /\ resp'.status = 403
            /\ resp'.data = <<>>
            /\ \E i \in 1..Len(resp'.log) :
                 /\ resp'.log[i].event = "Unauthorized download attempt"
                 /\ resp'.log[i].user = resp'.auth.token.sub
                 /\ resp'.log[i].file = resp'.file_id
                 /\ resp'.log[i].ip = resp'.ip
            /\ FAILED_ATTEMPTS'[resp'.ip] = FAILED_ATTEMPTS[resp'.ip] + 1
            /\ uploads' = uploads /\ documents' = documents]_vars

\* user 2 was refused a document of user 1 after uploads by both
C4_Witness ==
    /\ resp.op = "download" /\ resp.status = 403 /\ resp.user = 2
    /\ \E d \in documents : d.id = resp.file_id /\ d.user_id = 1
    /\ \E d \in documents : d.user_id = 2

\* C5: a download of a document with the valid token of its owner, from an
\* unblocked address, is answered 200 with exactly the bytes that were
\* uploaded when the document was created, whatever was uploaded since.
C5_OwnerDownloadReturnsUploadedBytes ==
    [][(/\ resp'.op = "download" /\ ~ActiveBlock(resp'.ip) /\ ValidBearer(resp', now)
        /\ \E d \in documents : d.id = resp'.file_id /\ d.user_id = resp'.auth.token.sub)
         => /\ resp'.status = 200
            /\ resp'.data = received[resp'.file_id]]_vars

\* C6: a list answered for user A holds exactly the documents whose owner is
\* A: every document of A, and no document of another user.
C6_ListIsOwnersDocuments ==
    (resp.op = "list" /\ resp.status = 200)
        => /\ resp.user = resp.auth.token.sub
           /\ resp.listed \subseteq documents
           /\ \A d \in documents : d \in resp.listed <=> d.user_id = resp.user

\* user 1 has listed its own document while user 2 has one too
C6_Witness ==
    /\ resp.op = "list" /\ resp.status = 200 /\ resp.user = 1
    /\ resp.listed # {}
    /\ \E d \in documents : d.user_id = 2

\* C7: an accepted upload adds one document whose owner is the user the
\* gateway resolved from the token of that request, whatever user id the
\* request carries in its form, and no step changes or removes a document
\* that exists.
C7_OwnerFromTokenAndImmutable ==
    [][/\ (resp'.op = "upload" /\ resp'.status = 200)
            => \E d \in documents' \ documents :
                 /\ documents' = documents \cup {d}
                 /\ d.id = resp'.document
                 /\ d.id \notin {e.id : e \in documents}
                 /\ d.user_id = resp'.auth.token.sub
                 /\ d.user_id = resp'.user
       /\ documents \subseteq documents'
       /\ ~(resp'.op = "upload" /\ resp'.status = 200) => documents' = documents]_vars

\* user 1 has uploaded a document with the id of user 2 in the form
C7_Witness ==
    /\ resp.op = "upload" /\ resp.status = 200
    /\ resp.user = 1 /\ resp.form_user_id = 2
    /\ \E d \in documents : d.id = resp.document /\ d.user_id = 1

\* a request that registers a failure: a refused login, a request refused by
\* the gateway, a download refused for its owner
RegistersFailure(r) == r.status \in {401, 403}

\* C8: a registered failure adds one to the count of the address and, when
\* the count reaches 10, sets block-until to now + 60; a protected request
\* that arrives before block-until is refused as blocked and leaves the
\* entry; the first that arrives at or after block-until is not refused as
\* blocked and the expired entry is removed (the entry found afterwards, if
\* any, is a new one set by a failure of that same request).
C8_FailureCountsAndBlockWindow ==
    [][/\ (resp'.op # "" /\ RegistersFailure(resp'))
            => /\ FAILED_ATTEMPTS'[resp'.ip] = FAILED_ATTEMPTS[resp'.ip] + 1
               /\ FAILED_ATTEMPTS'[resp'.ip] = BLOCK_THRESHOLD
                    => /\ resp'.ip \in DOMAIN BLOCKED_IPS'
                       /\ BLOCKED_IPS'[resp'.ip] = now + BLOCK_DURATION
       /\ (resp'.op \in ProtectedOps /\ resp'.ip \in DOMAIN BLOCKED_IPS)
            => IF now < BLOCKED_IPS[resp'.ip]
               THEN resp'.status = 429 /\ BLOCKED_IPS' = BLOCKED_IPS
               ELSE /\ resp'.status # 429
                    /\ resp'.ip \in DOMAIN BLOCKED_IPS'
                         => /\ RegistersFailure(resp')
                            /\ BLOCKED_IPS'[resp'.ip] = now + BLOCK_DURATION]_vars

\* a list was answered at the end of a block and the entry is gone
C8_Witness ==
    /\ now = BLOCK_DURATION
    /\ resp.op = "list" /\ resp.status = 200
    /\ FAILED_ATTEMPTS[resp.ip] >= BLOCK_THRESHOLD
    /\ resp.ip \notin DOMAIN BLOCKED_IPS

\* C9: no step removes or shortens a block that has not run out, a
\* successful login that resets the count included, and a protected request
\* from an address with a zero count and such a block is still answered 429.
C9_SuccessKeepsBlock ==
    [][/\ \A ip \in IPs :
            ActiveBlock(ip)
                => /\ ip \in DOMAIN BLOCKED_IPS'
                   /\ BLOCKED_IPS'[ip] >= BLOCKED_IPS[ip]
       /\ (resp'.op = "login" /\ resp'.status = 200 /\ ActiveBlock(resp'.ip))
            => /\ FAILED_ATTEMPTS'[resp'.ip] = 0
               /\ BLOCKED_IPS' = BLOCKED_IPS
       /\ (resp'.op \in ProtectedOps /\ ActiveBlock(resp'.ip))
            => resp'.status = 429]_vars

\* a request with a valid token was answered 429 after a login had reset the
\* count of the blocked address
C9_Witness ==
    /\ resp.op \in ProtectedOps /\ resp.status = 429
    /\ ValidBearer(resp, now)
    /\ FAILED_ATTEMPTS[resp.ip] = 0
    /\ ActiveBlock(resp.ip)

\* C10: a login whose email and password are both present and match no
\* seeded account is answered 401 without a token and adds exactly one to
\* the count of its address, the counts of the other addresses staying as
\* they were.
C10_InvalidLogin ==
    [][(/\ resp'.op = "login"
        /\ resp'.email # NoValue /\ resp'.password # NoValue
        /\ <<resp'.email, resp'.password>> \notin SeededCredentials)
         => /\ resp'.status = 401
            /\ resp'.token = NoToken
            /\ FAILED_ATTEMPTS'[resp'.ip] = FAILED_ATTEMPTS[resp'.ip] + 1
            /\ \A ip \in IPs \ {resp'.ip} : FAILED_ATTEMPTS'[ip] = FAILED_ATTEMPTS[ip]]_vars

\* a known email with a wrong password was refused while the other address
\* has failures of its own
C10_Witness ==
    /\ resp.op = "login" /\ resp.status = 401
    /\ resp.email = "test@student.com" /\ resp.password = "letmein"
    /\ FAILED_ATTEMPTS[resp.ip] = 1
    /\ \E ip \in IPs \ {resp.ip} : FAILED_ATTEMPTS[ip] >= 2

\* the id of the seeded account of an email
SeededIdOf(email) == IF email = "test@student.com" THEN 1 ELSE 2

\* C11: a login with the email and password of a seeded account is answered
\* 200 with a token whose subject is the id of that account, issued now and
\* expiring JWT_EXPIRATION_SECONDS (3600) later; a protected request from an
\* unblocked address that presents such a token before it expires reaches
\* the handler as that user and as no other.
C11_LoginTokenResolvesToUser ==
    [][/\ (resp'.op = "login" /\ <<resp'.email, resp'.password>> \in SeededCredentials)
            => /\ resp'.status = 200
               /\ resp'.user = SeededIdOf(resp'.email)
               /\ resp'.token.segments = 3
               /\ resp'.token.sub = SeededIdOf(resp'.email)
               /\ resp'.token.iat = now
               /\ resp'.token.exp = resp'.token.iat + 3600
               /\ resp'.token.key = JWT_SECRET_KEY
       /\ \A u \in SeededIds :
            (/\ resp'.op \in ProtectedOps /\ ~ActiveBlock(resp'.ip)
             /\ resp'.auth.scheme = "Bearer"
             /\ resp'.auth.token.segments = 3
             /\ resp'.auth.token.key = JWT_SECRET_KEY
             /\ resp'.auth.token.sub = u
             /\ resp'.auth.token.exp = resp'.auth.token.iat + 3600
             /\ now < resp'.auth.token.exp)
                => /\ "handler" \in resp'.calls
                   /\ resp'.user = u
                   /\ resp'.status \notin {401, 429}]_vars

\* a list was answered for user 2 on the token a login of user 2 at the
\* start returns, presented 59 seconds later
C11_Witness ==
    /\ now = BLOCK_DURATION - 1
    /\ resp.op = "list" /\ resp.status = 200 /\ resp.user = 2
    /\ resp.auth.token.sub = 2 /\ resp.auth.token.iat = 0
    /\ resp.auth.token.exp = JWT_EXPIRATION_SECONDS

\* the tokens that clients present
PresentedTokens == {h.token : h \in AuthHeaders \cup {Bearer(LateToken)}}

\* the token k has run out at time t
RunOut(k, t) == k.segments = 3 /\ k.key = JWT_SECRET_KEY /\ ~(t < k.exp)

\* C12: the handler of a protected request runs only if the token presented
\* is signed with the server's key and the time is before its expires-at; a
\* token presented from an unblocked address more than 3600 seconds after
\* its issue is answered 401 (as expired when its signature verifies) and
\* the handler does not run; and a token that has run out stays run out
\* after every step.
C12_ExpiredTokenRejected ==
    [][/\ (resp'.op \in ProtectedOps /\ "handler" \in resp'.calls)
            => /\ resp'.auth.scheme = "Bearer"
               /\ resp'.auth.token.segments = 3
               /\ resp'.auth.token.key = JWT_SECRET_KEY
               /\ now < resp'.auth.token.exp
       /\ (/\ resp'.op \in ProtectedOps /\ ~ActiveBlock(resp'.ip)
           /\ resp'.auth.scheme = "Bearer" /\ resp'.auth.token.segments = 3
           /\ now > resp'.auth.token.iat + 3600)
            => /\ resp'.status = 401
               /\ resp'.auth.token.key = JWT_SECRET_KEY => resp'.error = "Token expired"
               /\ "handler" \notin resp'.calls
               /\ documents' = documents /\ uploads' = uploads
               /\ resp'.listed = {} /\ resp'.data = <<>>
       /\ \A k \in PresentedTokens : RunOut(k, now) => RunOut(k, now')]_vars

\* a token issued 3601 seconds before the start was refused as expired at
\* the last clock reading
C12_Witness ==
    /\ now = BLOCK_DURATION
    /\ resp.op \in ProtectedOps /\ resp.status = 401 /\ resp.error = "Token expired"
    /\ resp.auth.token.iat + 3600 < now
    /\ resp.auth.token.key = JWT_SECRET_KEY

\* the three checks of an upload, each on its own
DeclaredPdf(f) == f.mimetype = "application/pdf"

SignaturePdf(f) ==
    /\ Len(f.content) >= 4
    /\ f.content[1] = "%" /\ f.content[2] = "P" /\ f.content[3] = "D" /\ f.content[4] = "F"

ExtensionPdf(f) ==
    LET n == Len(f.filename) IN
    /\ n >= 4
    /\ f.filename[n - 3] = "."
    /\ f.filename[n - 2] \in {"p", "P"}
    /\ f.filename[n - 1] \in {"d", "D"}
    /\ f.filename[n] \in {"f", "F"}

\* C13: an upload is accepted only if its declared type is application/pdf,
\* its first four bytes are %PDF and its filename ends in .pdf whatever the
\* case, all three together; an upload that reaches the handler with a file
\* that fails any one of them, whatever the other two, is answered 400, adds
\* no document and stores no file.
C13_AllThreeChecks ==
    [][/\ (resp'.op = "upload" /\ resp'.status = 200)
            => /\ resp'.file.present
               /\ DeclaredPdf(resp'.file)
               /\ SignaturePdf(resp'.file)
               /\ ExtensionPdf(resp'.file)
       /\ (/\ resp'.op = "upload" /\ "handler" \in resp'.calls /\ resp'.file.present
           /\ ~(DeclaredPdf(resp'.file) /\ SignaturePdf(resp'.file)
                  /\ ExtensionPdf(resp'.file)))
            => /\ resp'.status = 400
               /\ resp'.document = ""
               /\ documents' = documents
               /\ uploads' = uploads]_vars

\* an upload declared application/pdf and named .PDF whose bytes do not
\* start with the signature was refused after an upload had been accepted
C13_Witness ==
    /\ resp.op = "upload" /\ resp.status = 400 /\ resp.file.present
    /\ DeclaredPdf(resp.file) /\ ExtensionPdf(resp.file) /\ ~SignaturePdf(resp.file)
    /\ Len(resp.file.content) >= 4
    /\ documents # {}

\* C15: no two documents have the same stored name, and no step changes the
\* stored bytes of a document that exists, two uploads by one user with one
\* filename included.
C15_StoredNamesDistinct ==
    [][/\ \A d, e \in documents' : d.stored_name = e.stored_name => d = e
       /\ \A d \in documents : uploads'[d.stored_name] = uploads[d.stored_name]]_vars

\* C16, as claimed: in every state, an address whose count is at or above
\* the threshold (10) has a block-until on record.
C16_ThresholdImpliesBlockRecorded ==
    \A ip \in IPs : FAILED_ATTEMPTS[ip] >= 10 => ip \in DOMAIN BLOCKED_IPS

\* C16, amended: every step that changes the count of an address to a value
\* at or above the threshold records block-until = now + 60 for it; an
\* address with such a count is without a block-until only once the block
\* has run out and a protected request from that address, arriving at or
\* after block-until, has removed the entry, the count staying as it was.
C16_BlockRecordedUntilExpiry ==
    [][\A ip \in IPs :
        /\ (FAILED_ATTEMPTS'[ip] >= 10 /\ FAILED_ATTEMPTS'[ip] # FAILED_ATTEMPTS[ip])
             => /\ ip \in DOMAIN BLOCKED_IPS'
                /\ BLOCKED_IPS'[ip] = now + 60
        /\ (FAILED_ATTEMPTS'[ip] >= 10 /\ ip \notin DOMAIN BLOCKED_IPS')
             => /\ FAILED_ATTEMPTS'[ip] = FAILED_ATTEMPTS[ip]
                /\ ip \in DOMAIN BLOCKED_IPS
                     => /\ ~(now < BLOCKED_IPS[ip])
                        /\ resp'.op \in ProtectedOps /\ resp'.ip = ip]_vars

\* a download by its owner was answered at the end of a block: the count is
\* still at the threshold and the entry is gone
C16_Witness ==
    /\ resp.op = "download" /\ resp.status = 200
    /\ FAILED_ATTEMPTS[resp.ip] >= 10
    /\ resp.ip \notin DOMAIN BLOCKED_IPS

\* C17: a protected request refused with 429 leaves the count and the
\* block-until of its address, the entries of every other address and the
\* documents as they were, and neither verifies a token nor looks a user up.
C17_BlockedRequestChangesNothing ==
    [][(resp'.op \in ProtectedOps /\ resp'.status = 429)
         => /\ FAILED_ATTEMPTS' = FAILED_ATTEMPTS
            /\ BLOCKED_IPS' = BLOCKED_IPS
            /\ documents' = documents
            /\ uploads' = uploads
            /\ resp'.calls \cap CredentialChecks = {}
            /\ "handler" \notin resp'.calls]_vars

\* an upload with a valid token was refused as blocked while the other
\* address has failures and a block of its own
C17_Witness ==
    /\ resp.op = "upload" /\ resp.status = 429
    /\ resp.auth.scheme = "Bearer"
    /\ \E ip \in IPs \ {resp.ip} :
         FAILED_ATTEMPTS[ip] > FAILED_ATTEMPTS[resp.ip] /\ ip \in DOMAIN BLOCKED_IPS

\* C18: the count of an address is left as it is when its block runs out and
\* when the expired entry is removed (the request that removes it adds one
\* if it fails itself); so, with the count still at or above
\* the threshold (the address was blocked and no login has succeeded from it
\* since), one more failure from the address, its block run out, adds one
\* and blocks it again until now + 60.
C18_OneFailureBlocksAgain ==
    [][/\ now' # now => FAILED_ATTEMPTS' = FAILED_ATTEMPTS
       /\ \A ip \in IPs :
            (ip \in DOMAIN BLOCKED_IPS /\ ip \notin DOMAIN BLOCKED_IPS')
                => FAILED_ATTEMPTS'[ip] =
                     FAILED_ATTEMPTS[ip] + (IF RegistersFailure(resp') THEN 1 ELSE 0)
       /\ (/\ resp'.op # "" /\ RegistersFailure(resp')
           /\ FAILED_ATTEMPTS[resp'.ip] >= 10 /\ ~ActiveBlock(resp'.ip))
            => /\ FAILED_ATTEMPTS'[resp'.ip] = FAILED_ATTEMPTS[resp'.ip] + 1
               /\ resp'.ip \in DOMAIN BLOCKED_IPS'
               /\ BLOCKED_IPS'[resp'.ip] = now + 60]_vars

\* a request without a credential, arriving as the block of its address ran
\* out, was the eleventh failure and the address is blocked for 60 seconds more
C18_Witness ==
    /\ now = BLOCK_DURATION
    /\ resp.op \in ProtectedOps /\ resp.status = 401
    /\ FAILED_ATTEMPTS[resp.ip] = BLOCK_THRESHOLD + 1
    /\ resp.ip \in DOMAIN BLOCKED_IPS
    /\ BLOCKED_IPS[resp.ip] = 2 * BLOCK_DURATION

\* C19: where every failure of an address is a download, with a valid token,
\* of a document of another user (no login in between), each such download
\* is answered 403 and adds one; the address has no block before the tenth,
\* the tenth sets block-until = now + 60, and the next protected request of
\* the address before block-until is answered 429 though its token is valid.
C19_ProbingAccumulatesIntoBlock ==
    [][/\ (/\ resp'.op = "download" /\ ~ActiveBlock(resp'.ip) /\ ValidBearer(resp', now)
           /\ \E d \in documents : d.id = resp'.file_id /\ d.user_id # resp'.auth.token.sub)
            => /\ resp'.status = 403
               /\ FAILED_ATTEMPTS'[resp'.ip] = FAILED_ATTEMPTS[resp'.ip] + 1
               /\ FAILED_ATTEMPTS'[resp'.ip] < 10 => resp'.ip \notin DOMAIN BLOCKED_IPS'
               /\ FAILED_ATTEMPTS'[resp'.ip] = 10
                    => /\ resp'.ip \in DOMAIN BLOCKED_IPS'
                       /\ BLOCKED_IPS'[resp'.ip] = now + 60
       /\ (/\ resp'.op \in ProtectedOps /\ ValidBearer(resp', now)
           /\ FAILED_ATTEMPTS[resp'.ip] >= 10
           /\ resp'.ip \in DOMAIN BLOCKED_IPS /\ now < BLOCKED_IPS[resp'.ip])
            => resp'.status = 429]_vars

\* a list with a valid token was answered 429, 59 seconds after the tenth
\* refused download from its address
C19_Witness ==
    /\ now = BLOCK_DURATION - 1
    /\ resp.op = "list" /\ resp.status = 429 /\ ValidBearer(resp, now)
    /\ FAILED_ATTEMPTS[resp.ip] = 10
    /\ BLOCKED_IPS[resp.ip] = BLOCK_DURATION

\* no thread is inside a request
AllIdle == \A w \in Threads : threads[w].pc = "idle"

RECURSIVE RegisteredBy(_)
\* the calls of register_failed_attempt that the threads ws have completed
RegisteredBy(ws) ==
    IF ws = {} THEN 0
    ELSE LET w == CHOOSE v \in ws : TRUE IN threads[w].registered + RegisteredBy(ws \ {w})

\* C14: when the threads have handled N failing requests of one address,
\* in whatever order their steps were taken, the count of the address is N
\* higher than at the start (zero); and after ten such requests at the
\* start the address is blocked.
C14_NoFailureLost ==
    AllIdle
        => /\ FAILED_ATTEMPTS[ClientIp] = RegisteredBy(Threads)
           /\ (RegisteredBy(Threads) = 10 /\ now = 0) => ActiveBlock(ClientIp)

\* C20: a thread inside is_ip_blocked, once the block of the address has
\* run out, goes on to return False whatever the other threads have done
\* to the entry: it neither raises an error (the request answered 500) nor
\* answers that the address is blocked.
C20_CheckCompletesNormally ==
    [][\A w \in Threads :
        (/\ threads[w].pc \in {"lookup", "del"}
         /\ threads'[w] # threads[w]
         /\ ~ActiveBlock(ClientIp))
            => threads'[w].pc \in {"del", "load"}]_vars

=============================================================================
